---------------------------- MODULE Spec2Model ----------------------------
(***************************************************************************)
(* Model of rw-NTAG203-rfid-tag.ino: the JumperCableData record, its XOR   *)
(* checksum, the page-chunked writer, the block reader and the sequencer   *)
(* setup()/writeAllTags()/loop()/scanMode().  The MFRC522 reader and the   *)
(* tags in its field are the environment.                                  *)
(***************************************************************************)
EXTENDS Integers, Sequences, FiniteSets, TLC

VARIABLES
    pc,              \* position of the single thread of control
    i,               \* writeAllTags: loop index over tags[] (0-based)
    page,            \* writeStructToTag: loop index i over the pages
    tags,            \* the global table tags[]
    scanModeActive,  \* the global flag
    field,           \* the tag physically in the reader's field, or NoTag
    active,          \* the tag in the field is selected (ACTIVE state)
    session,         \* the reader holds an open session (uid selected, not halted)
    uid,             \* reader.uid: the tag the last successful selection chose
    mem,             \* mem[t][p]: the 4 bytes of page p of tag t
    out,             \* Serial lines printed by the handler invocation in progress
    calls,           \* reader operations issued by the invocation in progress
    trace,           \* history: the steps the write phase has executed
    written,         \* history: written[t] = 1-based index of the record whose
                     \* pages were all written to t by one writeStructToTag call
                     \* with nothing changing t since, else 0
    corrupt,         \* history: the last change of a tag from outside the program
    idle,            \* history: the last loop() call that returned found no tag
    stay             \* history: the last transfer issued to the tag in the
                     \* field since that tag came into the field

vars == <<pc, i, page, tags, scanModeActive, field, active, session, uid,
          mem, out, calls, trace, written, corrupt, idle, stay>>

-----------------------------------------------------------------------------
(* Program constants *)

START_PAGE == 4

NUM_TAGS == 4

\* sizeof(JumperCableData): char type[4]; uint8_t id; uint8_t checksum
RecordSize == 6

\* uint8_t pageData[4]: one NTAG203 page
PageSize == 4

\* byte buffer[18]: MIFARE_Read fills 16 data bytes (+ 2 CRC bytes)
ReadBytes == 16

(* The world around the program *)

\* at most this many changes of a tag's bytes from outside the program
MaxCorrupt == 1

NoTag == "none"

PhysicalTags == {"A"}

\* the pages of a tag the model keeps: those before START_PAGE, the four a
\* block read from START_PAGE returns, and two behind them
TagPages == 0 .. (START_PAGE + (ReadBytes \div PageSize) + 1)

-----------------------------------------------------------------------------
(* uint8_t arithmetic *)

Pow2(k) == CASE k = 0 -> 1 [] k = 1 -> 2 [] k = 2 -> 4 [] k = 3 -> 8
             [] k = 4 -> 16 [] k = 5 -> 32 [] k = 6 -> 64 [] k = 7 -> 128

Bit(a, k) == (a \div Pow2(k)) % 2

\* a ^ b on uint8_t
Xor(a, b) ==
    LET d(k) == IF Bit(a, k) # Bit(b, k) THEN Pow2(k) ELSE 0
    IN  d(0) + d(1) + d(2) + d(3) + d(4) + d(5) + d(6) + d(7)

\* the loop of calculateChecksum: sum ^= data[i] for i < length; the
\* accumulator holds a byte value at the head of every iteration
RECURSIVE XorLoop(_, _, _)
XorLoop(data, length, sum) ==
    IF length = 0 THEN sum
    ELSE LET rest(s) == XorLoop(Tail(data), length - 1, s)
         IN  CHOOSE r \in {rest(s) : s \in {Xor(sum, Head(data))}} : TRUE

\* variant: the loop starts at i = 1
calculateChecksum_SkipFirst(data, length) == XorLoop(Tail(data), length - 1, 0)

calculateChecksum(data, length) == XorLoop(data, length, 0)

-----------------------------------------------------------------------------
(* The record and its memory image *)

\* "POS" and "NEG" as char[4] initialisers: three characters and the NUL
POS == <<80, 79, 83, 0>>
NEG == <<78, 69, 71, 0>>

\* JumperCableData tags[] as initialised
TagsTable ==
    << [type |-> POS, id |-> 1, checksum |-> 0],
       [type |-> POS, id |-> 2, checksum |-> 0],
       [type |-> NEG, id |-> 3, checksum |-> 0],
       [type |-> NEG, id |-> 4, checksum |-> 0] >>

\* memcpy(byte_array, &data, sizeof(data)): the struct's bytes in layout order
StructBytes(data) == data.type \o <<data.id, data.checksum>>

\* memcpy(&data, rawData, sizeof(data)): the struct those bytes make
StructOf(raw) ==
    [type |-> SubSeq(raw, 1, 4), id |-> raw[5], checksum |-> raw[6]]

\* variant: plain integer division, the + 3 forgotten
totalPages_RoundDown == RecordSize \div 4

\* variant: one page more than the record needs
totalPages_OneMore == ((RecordSize + 3) \div 4) + 1

\* (sizeof(data) + 3) / 4
totalPages == (RecordSize + 3) \div 4

\* variant: the index into byte_array forgets the page offset i * 4
pageData_NoOffset(byte_array, p) ==
    [j \in 1 .. PageSize |->
        IF (p * PageSize) + (j - 1) < RecordSize
        THEN byte_array[(j - 1) + 1]
        ELSE 0]

\* the inner loop of writeStructToTag: pageData for page index p
pageData(byte_array, p) ==
    [j \in 1 .. PageSize |->
        IF (p * PageSize) + (j - 1) < RecordSize
        THEN byte_array[(p * PageSize) + (j - 1) + 1]
        ELSE 0]

-----------------------------------------------------------------------------
(* Serial output *)

Line(m, a) == [msg |-> m, arg |-> a]

\* Serial.println(char *): the characters up to the first NUL
RECURSIVE CStr(_)
CStr(s) == IF s = <<>> \/ Head(s) = 0 THEN <<>> ELSE <<Head(s)>> \o CStr(Tail(s))

\* Serial.println(uint8_t): decimal digits, no leading zeros
Dec(n) ==
    LET d(x) == 48 + x
    IN  IF n < 10 THEN <<d(n)>>
        ELSE IF n < 100 THEN <<d(n \div 10), d(n % 10)>>
        ELSE <<d(n \div 100), d((n \div 10) % 10), d(n % 10)>>

\* Serial.println(uint8_t, HEX): upper-case hex digits, no leading zeros
Hex(n) ==
    LET h(x) == IF x < 10 THEN 48 + x ELSE 55 + x
    IN  IF n < 16 THEN <<h(n)>> ELSE <<h(n \div 16), h(n % 16)>>

-----------------------------------------------------------------------------
(* The tags of the world *)

\* what pages START_PAGE and START_PAGE + 1 of a tag may hold before the
\* program first sees it: blank, or a record left by an earlier provisioning
Blank == << <<0, 0, 0, 0>>, <<0, 0, 0, 0>> >>

Stale == << NEG, <<4, calculateChecksum(NEG \o <<4>>, RecordSize - 1), 0, 0>> >>

InitContents == {Blank, Stale}

\* what a page outside the record holds (serial number, lock bytes,
\* capability container, other user data): some bytes of its own
OtherPage(p) == <<160 + p, 176 + p, 192 + p, 208 + p>>

TagImage(c) ==
    [p \in TagPages |->
        IF p = START_PAGE THEN c[1]
        ELSE IF p = START_PAGE + 1 THEN c[2]
        ELSE OtherPage(p)]

\* the bytes of n pages of tag image m from page p on
RECURSIVE PagesFrom(_, _, _)
PagesFrom(m, p, n) ==
    IF n = 0 THEN <<>> ELSE m[p] \o PagesFrom(m, p + 1, n - 1)

\* MIFARE_Read(startPage, buffer, &bufferSize): 16 bytes, 4 pages in one go
ReadBlock(m, startPage) == PagesFrom(m, startPage, ReadBytes \div PageSize)

\* what a stray char* read finds behind the local struct: not defined by
\* the program, so any of these
OverreadTails == {<<>>, <<63>>}

-----------------------------------------------------------------------------
(* Log entries *)

Step(s, r, a) == [step |-> s, rec |-> r, arg |-> a]

Call(o, a) == [op |-> o, arg |-> a]

\* nothing has been issued to the tag in the field since it came
NoStay == [op |-> "none", rec |-> 0]

NoCorrupt ==
    [tag |-> NoTag, inData |-> FALSE, wasValid |-> FALSE, wasWritten |-> 0]

Init ==
    /\ pc = "w_loop"
    /\ i = 0
    /\ page = 0
    /\ tags = TagsTable
    /\ scanModeActive = FALSE
    /\ field = NoTag
    /\ active = FALSE
    /\ session = FALSE
    /\ uid = NoTag
    /\ mem \in [PhysicalTags -> {TagImage(c) : c \in InitContents}]
    /\ out = <<>>
    /\ calls = <<>>
    /\ trace = <<>>
    /\ written = [t \in PhysicalTags |-> 0]
    /\ corrupt = [n |-> 0, last |-> NoCorrupt]
    /\ idle = FALSE
    /\ stay = NoStay

-----------------------------------------------------------------------------
(* The reader, as the program's calls see it *)

\* PICC_IsNewCardPresent() && PICC_ReadCardSerial() can both succeed only
\* with a tag in the field; either may fail at any time
CanDetect == field # NoTag

\* PICC_IsNewCardPresent() can answer true only with a tag in the field
CanPoll == field # NoTag

\* a transfer (MIFARE_Ultralight_Write, MIFARE_Read) can return STATUS_OK
\* only on the selected tag in the field; it may fail at any time
CanTransfer == field # NoTag /\ active

\* PICC_HaltA(); PCD_StopCrypto1();
EndSession ==
    /\ active' = FALSE
    /\ session' = FALSE
    /\ calls' = calls \o <<Call("halt", <<>>), Call("stopCrypto1", <<>>)>>

-----------------------------------------------------------------------------
(* Write phase: setup() -> writeAllTags() *)

\* variant: the loop stops one record early
MoreTags_OffByOne == i < NUM_TAGS - 1

\* the for-loop condition of writeAllTags
MoreTags == i < NUM_TAGS

\* variant: the checksum of tags[i] is not computed before the write
WriteNext_NoChecksum ==
    /\ pc = "w_loop"
    /\ MoreTags
    /\ out' = <<Line("Place tag for: ",
                     CStr(tags[i + 1].type) \o <<32>> \o Dec(tags[i + 1].id))>>
    /\ calls' = <<>>
    /\ trace' = Append(trace, Step("checksum", i + 1, <<>>))
    /\ pc' = "w_wait"
    /\ UNCHANGED <<i, page, tags, scanModeActive, field, active, session, uid,
                   mem, written, corrupt, idle, stay>>

\* for-loop head with i < NUM_TAGS: checksum of tags[i], then the prompt
WriteNext ==
    /\ pc = "w_loop"
    /\ MoreTags
    /\ LET sum == calculateChecksum(StructBytes(tags[i + 1]), RecordSize - 1)
       IN  tags' = [tags EXCEPT ![i + 1].checksum = sum]
    /\ out' = <<Line("Place tag for: ",
                     CStr(tags[i + 1].type) \o <<32>> \o Dec(tags[i + 1].id))>>
    /\ calls' = <<>>
    /\ trace' = Append(trace, Step("checksum", i + 1, <<>>))
    /\ pc' = "w_wait"
    /\ UNCHANGED <<i, page, scanModeActive, field, active, session, uid, mem,
                   written, corrupt, idle, stay>>

\* while (!IsNewCardPresent() || !ReadCardSerial()) delay(50): no tag yet
WaitCardNone ==
    /\ pc = "w_wait"
    /\ UNCHANGED vars

\* the wait loop exits: a tag was detected and selected; writeStructToTag
\* is entered (byte_array copied, totalPages computed, i = 0)
WaitCardDetected ==
    /\ pc = "w_wait"
    /\ CanDetect
    /\ active' = TRUE
    /\ session' = TRUE
    /\ uid' = field
    /\ out' = Append(out, Line("Tag detected, writing...", <<>>))
    /\ calls' = Append(calls, Call("select", <<>>))
    /\ trace' = Append(trace, Step("detect", i + 1, <<>>))
    /\ page' = 0
    /\ pc' = "w_write"
    /\ UNCHANGED <<i, tags, scanModeActive, field, mem, written, corrupt, idle,
                   stay>>

\* variant: a failed page write leaves the page loop
AfterPage_AbortOnFail(p, ok) ==
    IF ok /\ p + 1 < totalPages THEN "w_write" ELSE "w_halt"

\* variant: the record is read back once its last page has been written
AfterPage_ThenReadBack(p, ok) ==
    IF p + 1 < totalPages THEN "w_write" ELSE "s_read"

\* where the page loop of writeStructToTag goes after iteration p
AfterPage(p, ok) == IF p + 1 < totalPages THEN "w_write" ELSE "w_halt"

\* the loop index after iteration p
NextPage(p, ok) == p + 1

\* one iteration of the page loop of writeStructToTag
WritePage ==
    /\ pc = "w_write"
    /\ page < totalPages
    /\ LET data == pageData(StructBytes(tags[i + 1]), page)
           p == START_PAGE + page
       IN  \E ok \in BOOLEAN :
             /\ ok => CanTransfer
             /\ mem' = IF ok THEN [mem EXCEPT ![field][p] = data] ELSE mem
             /\ active' \in IF ok THEN {TRUE} ELSE {active, FALSE}
             /\ out' = Append(out,
                         IF ok THEN Line("Successfully wrote to page ", Dec(p))
                               ELSE Line("Failed to write page ", Dec(p)))
             /\ calls' = Append(calls, Call("write", <<p>> \o data))
             /\ trace' = Append(trace, Step("write", i + 1, <<p>> \o data))
             /\ written' =
                  IF ~ok THEN written
                  ELSE IF /\ page = totalPages - 1
                          /\ \A k \in 1 .. Len(out) :
                               out[k].msg # "Failed to write page "
                       THEN [written EXCEPT ![field] = i + 1]
                       ELSE [written EXCEPT ![field] = 0]
             /\ corrupt' = IF ok /\ corrupt.last.tag = field
                           THEN [corrupt EXCEPT !.last = NoCorrupt]
                           ELSE corrupt
             /\ page' = NextPage(page, ok)
             /\ pc' = AfterPage(page, ok)
    /\ stay' = IF field # NoTag THEN [op |-> "write", rec |-> i + 1] ELSE stay
    /\ UNCHANGED <<i, tags, scanModeActive, field, session, uid, idle>>

\* variant: the removal wait is missing, the next record follows at once
WriteEndSession_NoRemovalWait ==
    /\ pc = "w_halt"
    /\ EndSession
    /\ trace' = Append(trace, Step("endSession", i + 1, <<>>))
    /\ i' = i + 1
    /\ pc' = "w_loop"
    /\ UNCHANGED <<page, tags, scanModeActive, field, uid, mem, out, written,
                   corrupt, idle, stay>>

\* reader.PICC_HaltA(); reader.PCD_StopCrypto1(); after writeStructToTag
WriteEndSession ==
    /\ pc = "w_halt"
    /\ EndSession
    /\ trace' = Append(trace, Step("endSession", i + 1, <<>>))
    /\ pc' = "w_removal"
    /\ UNCHANGED <<i, page, tags, scanModeActive, field, uid, mem, out,
                   written, corrupt, idle, stay>>

\* while (reader.PICC_IsNewCardPresent()) delay(50): still answering
WaitRemovalStill ==
    /\ pc = "w_removal"
    /\ CanPoll
    /\ UNCHANGED vars

\* the removal loop exits; i++
WaitRemovalDone ==
    /\ pc = "w_removal"
    /\ i' = i + 1
    /\ trace' = Append(trace, Step("removed", i + 1, <<>>))
    /\ pc' = "w_loop"
    /\ UNCHANGED <<page, tags, scanModeActive, field, active, session, uid,
                   mem, out, calls, written, corrupt, idle, stay>>

\* variant: setup() does not set the flag after writeAllTags
WriteAllDone_FlagNotSet ==
    /\ pc = "w_loop"
    /\ ~MoreTags
    /\ out' = <<>>
    /\ calls' = <<>>
    /\ pc' = "loop"
    /\ UNCHANGED <<i, page, tags, scanModeActive, field, active, session, uid,
                   mem, trace, written, corrupt, idle, stay>>

\* for-loop head with i = NUM_TAGS: writeAllTags returns, setup() sets the flag
WriteAllDone ==
    /\ pc = "w_loop"
    /\ ~MoreTags
    /\ scanModeActive' = TRUE
    /\ out' = <<>>
    /\ calls' = <<>>
    /\ pc' = "loop"
    /\ UNCHANGED <<i, page, tags, field, active, session, uid, mem, trace,
                   written, corrupt, idle, stay>>

-----------------------------------------------------------------------------
(* Scan phase: loop() -> scanMode() *)

\* variant: the early return is missing, the tick runs into the removal wait
ScanNoTag_NoReturn ==
    /\ pc = "loop"
    /\ scanModeActive
    /\ idle' = TRUE
    /\ pc' = "s_removal"
    /\ UNCHANGED <<i, page, tags, scanModeActive, field, active, session, uid,
                   mem, out, calls, trace, written, corrupt, stay>>

\* variant: no return in the if, the read follows without a selection
ScanNoTag_ReadAnyway ==
    /\ pc = "loop"
    /\ scanModeActive
    /\ idle' = TRUE
    /\ pc' = "s_read"
    /\ UNCHANGED <<i, page, tags, scanModeActive, field, active, session, uid,
                   mem, out, calls, trace, written, corrupt, stay>>

\* if (!IsNewCardPresent() || !ReadCardSerial()) return;
ScanNoTag ==
    /\ pc = "loop"
    /\ scanModeActive
    /\ idle' = TRUE
    /\ UNCHANGED <<pc, i, page, tags, scanModeActive, field, active, session,
                   uid, mem, out, calls, trace, written, corrupt, stay>>

\* a tag was detected and selected: readStructFromTag(START_PAGE) is entered
ScanDetected ==
    /\ pc = "loop"
    /\ scanModeActive
    /\ CanDetect
    /\ active' = TRUE
    /\ session' = TRUE
    /\ uid' = field
    /\ idle' = FALSE
    /\ out' = <<Line("Card detected:", <<>>),
                Line("Reading Pages 4 and 5 to reconstruct data", <<>>)>>
    /\ calls' = <<Call("select", <<>>)>>
    /\ pc' = "s_read"
    /\ UNCHANGED <<i, page, tags, scanModeActive, field, mem, trace, written,
                   corrupt, stay>>

\* variant: the checksum byte itself is included (sizeof(data), not - 1)
expectedChecksum_WholeStruct(data) ==
    calculateChecksum(StructBytes(data), RecordSize)

\* expectedChecksum of the struct read back
expectedChecksum(data) == calculateChecksum(StructBytes(data), RecordSize - 1)

\* the checksum verdict line
Verdict(data) ==
    IF expectedChecksum(data) # data.checksum
    THEN Line("Checksum mismatch! Data may be corrupted.", <<>>)
    ELSE Line("Checksum valid.", <<>>)

\* the lines printed for a struct read back; tail is what println(data.type)
\* finds behind the struct when no NUL ends the string inside it
ReportLines(data, tail) ==
    << Line("Type: ", CStr(StructBytes(data) \o tail)),
       Line("ID: ", Dec(data.id)),
       Line("Checksum: ", Hex(data.checksum)),
       Verdict(data) >>

\* the STATUS_OK branch of readStructFromTag
ReadOk(startPage) ==
    LET buffer == ReadBlock(mem[field], startPage)
        rawData == SubSeq(buffer, 1, RecordSize)
        data == StructOf(rawData)
    IN  \E tail \in IF \E k \in 1 .. RecordSize : rawData[k] = 0
                    THEN {<<>>} ELSE OverreadTails :
          out' = out \o ReportLines(data, tail)

\* variant: the failure branch falls through to the checksum verdict
ReadFailed_FallThrough ==
    out' = out \o <<Line("Failed to read from tag", <<>>),
                    Line("Checksum mismatch! Data may be corrupted.", <<>>)>>

\* the else branch of readStructFromTag
ReadFailed == out' = Append(out, Line("Failed to read from tag", <<>>))

\* readStructFromTag up to the end of its if/else
ReadStruct ==
    /\ pc = "s_read"
    /\ \E ok \in BOOLEAN :
         /\ ok => CanTransfer
         /\ IF ok THEN ReadOk(START_PAGE) ELSE ReadFailed
         /\ active' \in IF ok THEN {TRUE} ELSE {active, FALSE}
    /\ calls' = Append(calls, Call("read", <<START_PAGE>>))
    /\ stay' = IF field # NoTag THEN [op |-> "read", rec |-> 0] ELSE stay
    /\ pc' = "s_halt"
    /\ UNCHANGED <<i, page, tags, scanModeActive, field, session, uid, mem,
                   trace, written, corrupt, idle>>

\* variant: the failure branch returns before the halt
ScanEndSession_SkipOnFailure ==
    /\ pc = "s_halt"
    /\ IF \E k \in 1 .. Len(out) : out[k].msg = "Failed to read from tag"
       THEN UNCHANGED <<active, session, calls>>
       ELSE EndSession
    /\ pc' = "s_removal"
    /\ UNCHANGED <<i, page, tags, scanModeActive, field, uid, mem, out, trace,
                   written, corrupt, idle, stay>>

\* reader.PICC_HaltA(); reader.PCD_StopCrypto1(); at the end of readStructFromTag
ScanEndSession ==
    /\ pc = "s_halt"
    /\ EndSession
    /\ pc' = "s_removal"
    /\ UNCHANGED <<i, page, tags, scanModeActive, field, uid, mem, out, trace,
                   written, corrupt, idle, stay>>

\* while (reader.PICC_IsNewCardPresent()) { }: still answering
ScanRemovalStill ==
    /\ pc = "s_removal"
    /\ CanPoll
    /\ UNCHANGED vars

\* the removal loop exits, scanMode() and loop() return
ScanRemovalDone ==
    /\ pc = "s_removal"
    /\ out' = <<>>
    /\ calls' = <<>>
    /\ pc' = "loop"
    /\ UNCHANGED <<i, page, tags, scanModeActive, field, active, session, uid,
                   mem, trace, written, corrupt, idle, stay>>

-----------------------------------------------------------------------------
(* The world outside the program *)

\* the operator holds tag t to the reader
PlaceTag(t) ==
    /\ field = NoTag
    /\ field' = t
    /\ UNCHANGED <<pc, i, page, tags, scanModeActive, active, session, uid,
                   mem, out, calls, trace, written, corrupt, idle, stay>>

\* the operator takes the tag away
RemoveTag ==
    /\ field # NoTag
    /\ field' = NoTag
    /\ active' = FALSE
    /\ stay' = NoStay
    /\ UNCHANGED <<pc, i, page, tags, scanModeActive, session, uid, mem, out,
                   calls, trace, written, corrupt, idle>>

\* the record bytes a tag holds
RecordOn(m) == SubSeq(ReadBlock(m, START_PAGE), 1, RecordSize)

\* the record on a tag satisfies the record invariant
ValidOn(m) ==
    LET b == RecordOn(m)
    IN  b[6] = Xor(Xor(Xor(Xor(b[1], b[2]), b[3]), b[4]), b[5])

\* the eight single-bit masks of a byte
OneBit == {1, 2, 4, 8, 16, 32, 64, 128}

\* bit m of byte k (0-based) of the record on tag t flips while the tag lies
\* away from the reader between two scans
Corrupt(t, k, m) ==
    /\ corrupt.n < MaxCorrupt
    /\ pc = "loop"
    /\ field = NoTag
    /\ LET p == START_PAGE + (k \div PageSize)
           j == (k % PageSize) + 1
       IN  /\ mem' = [mem EXCEPT ![t][p][j] = Xor(@, m)]
           /\ corrupt' = [n |-> corrupt.n + 1,
                          last |-> [tag |-> t,
                                    inData |-> k < RecordSize - 1,
                                    wasValid |-> ValidOn(mem[t]),
                                    wasWritten |-> written[t]]]
    /\ written' = [written EXCEPT ![t] = 0]
    /\ UNCHANGED <<pc, i, page, tags, scanModeActive, field, active, session,
                   uid, out, calls, trace, idle, stay>>

-----------------------------------------------------------------------------

Next ==
    \/ WriteNext
    \/ WaitCardNone
    \/ WaitCardDetected
    \/ WritePage
    \/ WriteEndSession
    \/ WaitRemovalStill
    \/ WaitRemovalDone
    \/ WriteAllDone
    \/ ScanNoTag
    \/ ScanDetected
    \/ ReadStruct
    \/ ScanEndSession
    \/ ScanRemovalStill
    \/ ScanRemovalDone
    \/ \E t \in PhysicalTags : PlaceTag(t)
    \/ RemoveTag
    \/ \E t \in PhysicalTags, k \in 0 .. RecordSize - 1, m \in OneBit :
         Corrupt(t, k, m)

Spec == Init /\ [][Next]_vars

\* the processor keeps executing: every statement that is not a wait for
\* the world is eventually taken
ProgramRuns ==
    /\ WF_vars(WriteNext)
    /\ WF_vars(WritePage)
    /\ WF_vars(WriteEndSession)
    /\ WF_vars(WriteAllDone)
    /\ WF_vars(ReadStruct)
    /\ WF_vars(ScanEndSession)

\* while the program waits for a tag the operator brings one, and a tag
\* that is in the field again and again is eventually detected and selected
TagComes ==
    /\ WF_vars(pc = "w_wait" /\ \E t \in PhysicalTags : PlaceTag(t))
    /\ SF_vars(WaitCardDetected)

\* while the program waits for removal the poll eventually answers false
TagGoes ==
    /\ WF_vars(WaitRemovalDone)
    /\ WF_vars(ScanRemovalDone)

\* the program and the operator; the bytes on the tags, which steer no
\* branch but the verdict line, change through the program alone
ProgressNext ==
    \/ WriteNext
    \/ WaitCardNone
    \/ WaitCardDetected
    \/ WritePage
    \/ WriteEndSession
    \/ WaitRemovalStill
    \/ WaitRemovalDone
    \/ WriteAllDone
    \/ ScanNoTag
    \/ ScanDetected
    \/ ReadStruct
    \/ ScanEndSession
    \/ ScanRemovalStill
    \/ ScanRemovalDone
    \/ \E t \in PhysicalTags : PlaceTag(t)
    \/ RemoveTag

FairSpec ==
    Init /\ [][ProgressNext]_vars /\ ProgramRuns /\ TagComes /\ TagGoes

-----------------------------------------------------------------------------
(* What the claims observe *)

\* readStructFromTag has printed its result in the scanMode() call in progress
ReadDone == pc \in {"s_halt", "s_removal"}

\* ... and the block read returned STATUS_OK
ReadSucceeded ==
    /\ ReadDone
    /\ Len(out) = 6
    /\ out[3].msg = "Type: "

\* ... and the block read failed
ReadFailure ==
    /\ ReadDone
    /\ \E k \in 1 .. Len(out) : out[k].msg = "Failed to read from tag"

ReportedValid == out[6] = Line("Checksum valid.", <<>>)

ReportedInvalid == out[6] = Line("Checksum mismatch! Data may be corrupted.", <<>>)

\* the predefined records, as the data model states them
ExpectedType(r) == IF r <= 2 THEN <<80, 79, 83>> ELSE <<78, 69, 71>>

ExpectedId(r) == r

\* XOR of the first five bytes of b
XorOfData(b) == Xor(Xor(Xor(Xor(b[1], b[2]), b[3]), b[4]), b[5])

-----------------------------------------------------------------------------
(* C1: write/read round trip.  When every page write of record r succeeded *)
(* on a tag, nothing changed the tag since, and a later block read of that *)
(* tag succeeds, the report shows r's type, r's id and r's checksum, and   *)
(* the checksum is reported valid.                                         *)
C1_RoundTrip ==
    \A r \in 1 .. NUM_TAGS :
        (ReadSucceeded /\ written[uid] = r) =>
            /\ out[3] = Line("Type: ", ExpectedType(r))
            /\ out[4] = Line("ID: ", <<48 + ExpectedId(r)>>)
            /\ out[5] = Line("Checksum: ", Hex(tags[r].checksum))
            /\ tags[r].checksum = XorOfData(tags[r].type \o <<tags[r].id>>)
            /\ ReportedValid

\* record 1 (POS 1) was written in full and is read back
C1_Witness == ReadSucceeded /\ written[uid] = 1 /\ ReportedValid

(* C2: for the six bytes B a successful block read returns as the record,  *)
(* the checksum is reported valid if and only if B[5] (the last byte)      *)
(* equals the XOR of B[0..4]; otherwise it is reported as a mismatch.      *)
C2_ValidIffXor ==
    ReadSucceeded =>
        LET B == RecordOn(mem[uid])
        IN  /\ ReportedValid <=> (B[6] = XorOfData(B))
            /\ ReportedInvalid <=> (B[6] # XorOfData(B))

\* a read of a valid record whose checksum byte had one bit flipped
C2_Witness ==
    /\ ReadSucceeded
    /\ corrupt.last.tag = uid
    /\ ~corrupt.last.inData
    /\ corrupt.last.wasValid
    /\ ReportedInvalid

(* C3: single-bit detection.  When one bit of the type bytes or the id     *)
(* byte of a checksum-valid record is flipped on the tag and the checksum  *)
(* byte is left alone, the next successful read reports a mismatch.        *)
C3_SingleBitDetected ==
    ( /\ ReadSucceeded
      /\ corrupt.last.tag = uid
      /\ corrupt.last.inData
      /\ corrupt.last.wasValid ) => ReportedInvalid

\* a written record with one data bit flipped has been read
C3_Witness ==
    /\ ReadSucceeded
    /\ corrupt.last.tag = uid
    /\ corrupt.last.inData
    /\ corrupt.last.wasValid
    /\ corrupt.last.wasWritten = 3
    /\ ReportedInvalid

(* Observations of the write phase *)

IsWrite(c) == c.op = "write"

\* the page writes issued by the writeAllTags iteration in progress
WritesIssued == SelectSeq(calls, IsWrite)

\* ceil(RecordSize / PageSize)
PagesNeeded ==
    CHOOSE n \in 0 .. RecordSize :
        n * PageSize >= RecordSize /\ (n - 1) * PageSize < RecordSize

\* the pages a record occupies, ascending
RecordPages == [k \in 1 .. PagesNeeded |-> START_PAGE + (k - 1)]

\* the pages of the write steps of record r in the history, in order
PagesTried(h, r) ==
    LET w == SelectSeq(h, LAMBDA e : e.step = "write" /\ e.rec = r)
    IN  [k \in 1 .. Len(w) |-> w[k].arg[1]]

(* C4: page chunking.  writeStructToTag issues ceil(L/4) single-page       *)
(* writes, to START_PAGE, START_PAGE + 1, ... in ascending order; the      *)
(* buffer of the k-th write holds record bytes [4k, min(4k+4, L)) in       *)
(* order and 0x00 at every position at or beyond L.                        *)
C4_PageChunking ==
    pc \in {"w_write", "w_halt", "w_removal"} =>
        LET w == WritesIssued
            r == tags[i + 1]
            b == r.type \o <<r.id, r.checksum>>
        IN  /\ Len(w) <= PagesNeeded
            /\ pc \in {"w_halt", "w_removal"} => Len(w) = PagesNeeded
            /\ \A k \in 1 .. Len(w) :
                 /\ Len(w[k].arg) = 1 + PageSize
                 /\ w[k].arg[1] = START_PAGE + (k - 1)
                 /\ \A j \in 1 .. PageSize :
                      LET pos == (k - 1) * PageSize + (j - 1)
                      IN  w[k].arg[1 + j] = IF pos < Len(b) THEN b[pos + 1] ELSE 0

\* both pages of POS 1 have been issued; the second ends in two zero bytes
C4_Witness ==
    /\ pc = "w_halt"
    /\ i = 0
    /\ Len(WritesIssued) = 2
    /\ WritesIssued[2].arg = <<5, 1, 77, 0, 0>>

(* C5: a failed page write is neither retried nor fatal.  Whatever page    *)
(* writes fail, each page of each record is attempted exactly once, in     *)
(* order, and the records after it are processed as usual.  Stated over   *)
(* the write phase, at whose end the history of page writes is complete.   *)
C5_NoRetryNoAbort ==
    ~scanModeActive =>
        \A r \in 1 .. NUM_TAGS :
            \A a \in {PagesTried(trace, r)} :
                IF r <= i \/ (r = i + 1 /\ pc \in {"w_halt", "w_removal"})
                THEN a = RecordPages
                ELSE IF r = i + 1 /\ pc = "w_write"
                     THEN a = SubSeq(RecordPages, 1, page)
                     ELSE a = <<>>

\* the first page write of record 1 failed, and record 2 has been through
\* its page loop all the same: page 4 failed again, page 5 was then written
C5_Witness ==
    /\ pc = "w_removal"
    /\ i = 1
    /\ \E t \in PhysicalTags : mem[t][START_PAGE] = <<0, 0, 0, 0>>
    /\ \E k \in 1 .. Len(out) : out[k] = Line("Failed to write page ", <<52>>)
    /\ \E k \in 1 .. Len(out) : out[k] = Line("Successfully wrote to page ", <<53>>)

\* the block reads issued by the scanMode() call in progress
IsRead(c) == c.op = "read"

ReadsIssued == SelectSeq(calls, IsRead)

(* C6: when the block read fails, only the failure is reported (no record, *)
(* no checksum verdict), the read is issued once and not again for that    *)
(* detection, and the program stays in the scan phase and goes on to the   *)
(* removal wait and back to polling.                                       *)
C6_FailureReport ==
    ReadFailure =>
        /\ out = << Line("Card detected:", <<>>),
                    Line("Reading Pages 4 and 5 to reconstruct data", <<>>),
                    Line("Failed to read from tag", <<>>) >>
        /\ Len(ReadsIssued) = 1
        /\ scanModeActive

C6_FailureStep ==
    ReadFailure =>
        /\ scanModeActive'
        /\ Len(ReadsIssued') <= 1
        /\ pc = "s_halt" => pc' \in {"s_halt", "s_removal"}
        /\ pc = "s_removal" => pc' \in {"s_removal", "loop"}

C6_ReadFailure == [](C6_FailureReport) /\ [][C6_FailureStep]_vars

\* a failed read, the session ended, the program waiting for removal
C6_Witness == ReadFailure /\ pc = "s_removal" /\ ~session

(* C7: a checksum mismatch is reported, not fatal.  After one byte of a     *)
(* written, valid record has been changed on the tag (here by one flipped  *)
(* bit), the next successful read reports the checksum invalid and reports *)
(* the type, the id and the checksum as they now stand on the tag, and the *)
(* scan phase goes on.                                                     *)
C7_MismatchReported ==
    ( /\ ReadSucceeded
      /\ corrupt.last.tag = uid
      /\ corrupt.last.wasWritten # 0 ) =>
        LET B == RecordOn(mem[uid])
        IN  /\ ReportedInvalid
            /\ out[3] = Line("Type: ", CStr(SubSeq(B, 1, 4)))
            /\ out[4] = Line("ID: ", Dec(B[5]))
            /\ out[5] = Line("Checksum: ", Hex(B[6]))
            /\ scanModeActive

(* C8: phase order.  The program starts in the write phase; the scan phase *)
(* begins only after all 4 records have been through the write phase; in   *)
(* the scan phase the flag never falls back and no page write is issued.   *)
WritePhasePcs == {"w_loop", "w_wait", "w_write", "w_halt", "w_removal"}

HasStep(s, r) == \E k \in 1 .. Len(trace) : trace[k].step = s /\ trace[k].rec = r

C8_PhaseInv ==
    /\ scanModeActive <=> pc \notin WritePhasePcs
    /\ scanModeActive =>
         /\ \A r \in 1 .. 4 :
              PagesTried(trace, r) = RecordPages /\ HasStep("removed", r)
         /\ WritesIssued = <<>>

C8_PhaseStep ==
    scanModeActive =>
        /\ scanModeActive'
        /\ trace' = trace
        /\ WritesIssued' = <<>>

C8_PhaseOrder ==
    /\ ~scanModeActive
    /\ [](C8_PhaseInv)
    /\ [][C8_PhaseStep]_vars

\* the scan phase at work, after the 24 steps of the write phase
C8_Witness == scanModeActive /\ pc = "s_read" /\ Len(trace) = 24

(* C9: write-phase order.  The records are handled in table order (POS 1,  *)
(* POS 2, NEG 3, NEG 4), each once, and each in the order: checksum, tag   *)
(* detected, page writes, session end, removal wait finished; nothing of   *)
(* the next record happens before that.                                    *)
ExpectedSteps(r) ==
    LET t == ExpectedType(r) \o <<0>>
        ck == XorOfData(t \o <<ExpectedId(r)>>)
    IN  << Step("checksum", r, <<>>),
           Step("detect", r, <<>>),
           Step("write", r, <<4>> \o t),
           Step("write", r, <<5, ExpectedId(r), ck, 0, 0>>),
           Step("endSession", r, <<>>),
           Step("removed", r, <<>>) >>

ExpectedTrace ==
    ExpectedSteps(1) \o ExpectedSteps(2) \o ExpectedSteps(3) \o ExpectedSteps(4)

C9_WriteOrder ==
    /\ Len(trace) <= Len(ExpectedTrace)
    /\ trace = SubSeq(ExpectedTrace, 1, Len(trace))
    /\ scanModeActive => trace = ExpectedTrace

\* NEG 3 between its two page writes, after POS 1 and POS 2 were finished
C9_Witness == pc = "w_write" /\ i = 2 /\ page = 1 /\ Len(trace) = 15

(* C10: in the scan phase a tick that detects no tag (the presence poll    *)
(* is false or the selection fails) issues no block read, no page write    *)
(* and no session end, prints nothing, and returns to the poll without     *)
(* entering a waiting loop.                                                *)
C10_IdleInv ==
    idle => /\ pc = "loop"
            /\ calls = <<>>
            /\ out = <<>>
            /\ ~session

C10_IdleStep ==
    (pc = "loop" /\ ~session') =>
        /\ pc' = "loop"
        /\ calls' = <<>>
        /\ out' = <<>>
        /\ trace' = trace

C10_IdleTick == [](C10_IdleInv) /\ [][C10_IdleStep]_vars

\* an idle tick has happened with no tag in the field
C10_Witness == idle /\ pc = "loop" /\ field = NoTag /\ scanModeActive

-----------------------------------------------------------------------------
(* Observations of single steps *)

\* this step issues the block read of readStructFromTag
ReadIssued == pc = "s_read" /\ pc' = "s_halt"

\* this step issues a page write of writeStructToTag
WriteIssued == pc = "w_write" /\ page' = page + 1

(* C11: in the scan phase a tag that stays physically in the field is read *)
(* at most once per presentation: no block read is issued to a tag that    *)
(* has been in the field without a break since the previous block read     *)
(* was issued to it.                                                       *)
C11_ReadStep == ReadIssued => stay.op # "read"

C11_ReadOncePerPresentation == [][C11_ReadStep]_vars

\* how often the invocation in progress has issued reader operation o
CountOf(o) == Len(SelectSeq(calls, LAMBDA c : c.op = o))

\* the program is about to issue a presence poll
AtPoll == pc \in {"w_wait", "w_removal", "loop", "s_removal"}

\* the program is between a successful detection and the session end
InSession == pc \in {"w_write", "w_halt", "s_read", "s_halt"}

(* C12: every session opened by a successful detection is ended, by one    *)
(* halt and one authentication reset, before the next presence poll, in    *)
(* the write phase and in the scan phase, whatever the transfers returned: *)
(* at a poll no session is open; between the detection and the end the     *)
(* session is open and not yet halted; in the removal wait the invocation  *)
(* has issued one select, then its transfers, then halt and reset, once.   *)
C12_SessionEnded ==
    /\ AtPoll => ~session
    /\ InSession =>
         /\ session
         /\ CountOf("select") = 1
         /\ calls[1].op = "select"
         /\ CountOf("halt") = 0
         /\ CountOf("stopCrypto1") = 0
    /\ pc \in {"w_removal", "s_removal"} =>
         /\ CountOf("select") = 1
         /\ CountOf("halt") = 1
         /\ CountOf("stopCrypto1") = 1
         /\ SubSeq(calls, Len(calls) - 1, Len(calls)) =
              <<Call("halt", <<>>), Call("stopCrypto1", <<>>)>>

\* the session of a write whose last page failed has been ended
C12_Witness ==
    /\ pc = "w_removal"
    /\ out[Len(out)].msg = "Failed to write page "
    /\ CountOf("halt") = 1
    /\ ~session

\* the page buffers of the write steps of record r in the history, joined
RECURSIVE BytesTried(_, _)
BytesTried(h, r) ==
    IF h = <<>> THEN <<>>
    ELSE IF Head(h).step = "write" /\ Head(h).rec = r
         THEN Tail(Head(h).arg) \o BytesTried(Tail(h), r)
         ELSE BytesTried(Tail(h), r)

\* writeStructToTag has been entered for tags[i] and not yet left behind
RecordHandedOver == pc \in {"w_write", "w_halt", "w_removal"}

(* C13: every record handed to writeStructToTag satisfies the record       *)
(* invariant when it is written: its checksum byte is the XOR of its four  *)
(* type bytes and its id byte, the page buffers carry exactly the bytes of *)
(* that record, and so the six bytes placed in the buffers of a record's   *)
(* page writes form a checksum-valid record.                               *)
C13_ValidWhenWritten ==
    /\ RecordHandedOver =>
         LET r == tags[i + 1]
         IN  /\ r.checksum = XorOfData(r.type \o <<r.id>>)
             /\ \A k \in 1 .. Len(WritesIssued) :
                  \A j \in 1 .. PageSize :
                     LET pos == (k - 1) * PageSize + j
                     IN  pos <= RecordSize =>
                           WritesIssued[k].arg[1 + j] = StructBytes(r)[pos]
    /\ ~scanModeActive =>
         \A r \in 1 .. NUM_TAGS :
            \A b \in {BytesTried(trace, r)} :
               Len(b) >= RecordSize => b[RecordSize] = XorOfData(b)

\* both page buffers of NEG 4 have been handed to the reader
C13_Witness ==
    /\ pc = "w_halt"
    /\ i = 3
    /\ BytesTried(trace, 4) = NEG \o <<4, 72, 0, 0>>

IsTransfer(c) == c.op \in {"write", "read"}

(* C14: no transfer without selection.  A page write or a block read is    *)
(* issued only while a session is open: where the program is about to     *)
(* issue one, the reader holds a session, and every transfer an invocation *)
(* has issued comes after its successful poll-and-select and before its    *)
(* halt.                                                                   *)
C14_TransferInSession ==
    /\ pc \in {"w_write", "s_read"} => session /\ CountOf("halt") = 0
    /\ \A k \in 1 .. Len(calls) :
         IsTransfer(calls[k]) =>
            /\ \E j \in 1 .. k - 1 : calls[j].op = "select"
            /\ \A j \in 1 .. k - 1 :
                 calls[j].op \notin {"halt", "stopCrypto1"}

\* a block read has been issued inside the session its selection opened
C14_Witness ==
    /\ pc = "s_halt"
    /\ session
    /\ calls = <<Call("select", <<>>), Call("read", <<START_PAGE>>)>>

(* C15: one record per tag presentation in the write phase: a tag left in  *)
(* the field without a break after the page writes of one record is not    *)
(* given the page writes of the next record.                               *)
C15_WriteStep == WriteIssued => ~(stay.op = "write" /\ stay.rec # i + 1)

C15_OneRecordPerPresentation == [][C15_WriteStep]_vars

\* the pages the record occupies: [START_PAGE, START_PAGE + ceil(L / 4))
Footprint == {RecordPages[k] : k \in 1 .. PagesNeeded}

(* C16: write footprint.  The page writes of writeStructToTag go to pages  *)
(* 4 and 5 only; every other page of every tag holds what it held at the   *)
(* start, after any sequence of operations; a step that issues a page      *)
(* write leaves all pages outside 4 and 5 as they were, and a step that    *)
(* issues a block read leaves every page as it was.                        *)
C16_FrameInv ==
    /\ Footprint = {4, 5}
    /\ \A t \in PhysicalTags :
         \A p \in TagPages \ Footprint : mem[t][p] = OtherPage(p)
    /\ \A k \in 1 .. Len(trace) :
         trace[k].step = "write" => trace[k].arg[1] \in Footprint

C16_FrameStep ==
    /\ WriteIssued =>
         \A t \in PhysicalTags :
            \A p \in TagPages \ Footprint : mem'[t][p] = mem[t][p]
    /\ ReadIssued => mem' = mem

C16_WriteFootprint == [](C16_FrameInv) /\ [][C16_FrameStep]_vars

\* all four records went onto the tag, the last one in full, and the tag
\* has been read: pages 4 and 5 hold NEG 4, the pages around them are intact
C16_Witness ==
    /\ ReadSucceeded
    /\ written[uid] = 4
    /\ mem[uid][START_PAGE] = NEG
    /\ mem[uid][START_PAGE - 1] = OtherPage(START_PAGE - 1)
    /\ mem[uid][START_PAGE + 2] = OtherPage(START_PAGE + 2)

(* C17: progress.  When a tag is eventually detected and selected whenever *)
(* the program waits for one, and the poll eventually answers false        *)
(* whenever it waits for removal, then whatever page writes and block      *)
(* reads fail: the write phase finishes all 4 records and the scan phase   *)
(* is reached, and in the scan phase every read is followed by the return  *)
(* to the presence poll.  The waiting loops have no other way out: the     *)
(* wait for a tag is left only by a detection, the removal waits only to   *)
(* the statement behind them.                                              *)
C17_LoopExit ==
    /\ (pc = "w_wait" /\ pc' # "w_wait") =>
          CanDetect /\ session' /\ pc' = "w_write"
    /\ (pc = "w_removal" /\ pc' # "w_removal") => pc' = "w_loop"
    /\ (pc = "s_removal" /\ pc' # "s_removal") => pc' = "loop"

C17_Progress ==
    /\ <>(/\ scanModeActive
          /\ pc = "loop"
          /\ i = NUM_TAGS
          /\ \A r \in 1 .. NUM_TAGS : HasStep("removed", r))
    /\ ReadDone ~> (pc = "loop")
    /\ [][C17_LoopExit]_vars

\* the scan phase was reached although the first page write of every record
\* failed, and a read of the tag now in the field has returned to the poll
C17_Witness ==
    /\ scanModeActive
    /\ pc = "loop"
    /\ \A t \in PhysicalTags : mem[t][START_PAGE] = <<0, 0, 0, 0>>
    /\ stay.op = "read"

\* the invocation in progress has printed a checksum verdict
HasVerdict ==
    \E k \in 1 .. Len(out) :
        out[k].msg \in {"Checksum valid.",
                        "Checksum mismatch! Data may be corrupted."}

\* writeAllTags has left its loop; setup() is about to set scanModeActive
WriteLoopLeft == pc = "w_loop" /\ i = NUM_TAGS

(* C18, as stated: the phases are write, then verify, then scan, each      *)
(* record written being read back and checked before the scan phase        *)
(* begins.  Stated for the last record, whose reader calls and lines are   *)
(* still on record when the scan phase is about to begin: a block read has *)
(* been issued and a checksum verdict printed.                             *)
C18_WriteVerifyScan == WriteLoopLeft => (CountOf("read") >= 1 /\ HasVerdict)

(* C18, amended: the phases are write, then scan.  Before the scan phase   *)
(* begins no block read is issued and no checksum verdict is printed: the  *)
(* records are written and not read back; reading and checking happen in   *)
(* the scan phase only.                                                    *)
C18_WriteThenScan ==
    /\ ~scanModeActive => (CountOf("read") = 0 /\ ~HasVerdict)
    /\ pc \in {"s_read", "s_halt", "s_removal"} => scanModeActive
    /\ WriteLoopLeft =>
         \A r \in 1 .. NUM_TAGS : PagesTried(trace, r) = RecordPages

\* all four records are on the tag, the scan phase is about to begin, and
\* nothing has been read back
C18_Witness ==
    /\ WriteLoopLeft
    /\ \A t \in PhysicalTags : written[t] = NUM_TAGS
    /\ calls = << Call("select", <<>>),
                  Call("write", <<4>> \o NEG),
                  Call("write", <<5, 4, 72, 0, 0>>),
                  Call("halt", <<>>),
                  Call("stopCrypto1", <<>>) >>

\* the record the write phase last detected a tag for; with one physical
\* tag, the record that tag was last presented for
RECURSIVE LastDetect(_)
LastDetect(h) ==
    IF h = <<>> THEN 0
    ELSE IF h[Len(h)].step = "detect" THEN h[Len(h)].rec
         ELSE LastDetect(SubSeq(h, 1, Len(h) - 1))

(* C19: valid implies as written.  For a tag presented for record R in the *)
(* write phase and changed by nothing but the program since, a scan that   *)
(* reports a checksum-valid record reports R's type and R's id, whatever   *)
(* the tag held before and whichever page writes failed.                   *)
C19_ValidAsWritten ==
    (ReadSucceeded /\ ReportedValid /\ corrupt.n = 0) =>
        LET R == LastDetect(trace)
        IN  /\ out[3] = Line("Type: ", ExpectedType(R))
            /\ out[4] = Line("ID: ", Dec(ExpectedId(R)))

(* C20: valid implies in domain.  Whatever pages 4 and 5 of the tag hold,  *)
(* a blank tag of zero bytes included, a record the scan phase reports as  *)
(* checksum-valid has type POS or NEG and an id in 1..4.                   *)
C20_ValidInDomain ==
    (ReadSucceeded /\ ReportedValid) =>
        /\ out[3] \in {Line("Type: ", CStr(POS)), Line("Type: ", CStr(NEG))}
        /\ out[4] \in {Line("ID: ", Dec(n)) : n \in 1 .. NUM_TAGS}

=============================================================================
